---------------------------- MODULE Spec2Model ----------------------------
(***************************************************************************)
(* postgres-mcp: the tool layer of api/mcp.js and api/chat.js.             *)
(*                                                                         *)
(* Two tool registries (the /api/mcp one and the /api/chat one) expose the *)
(* same six tools.  Every tool acquires a client from its module's pool,   *)
(* awaits a fixed sequence of client.query calls inside try/catch/finally  *)
(* and releases the client.  /api/mcp POST is optionally wrapped by the    *)
(* authentication gate.                                                    *)
(*                                                                         *)
(* Encoding of JavaScript values:                                          *)
(*   - a string is a sequence of tokens; the text 'Bearer ' is the two     *)
(*     tokens <<"Bearer", " ">>;                                           *)
(*   - null / undefined are the sequences Null / Undefined, which hold a   *)
(*     token no string holds;                                              *)
(*   - an SQL text is a sequence of word tokens ("ws" is white space).     *)
(* The database and the pg pool are external: they are modelled by what    *)
(* PostgreSQL and pg-pool do with the calls the code makes.                *)
(***************************************************************************)
EXTENDS Integers, Sequences, FiniteSets, TLC

\* ------------------------------------------------------------------ bounds
MaxBatch == 3       \* longest transaction batch a caller submits
MaxHdrLen == 4      \* longest Authorization header value (tokens)
MaxKeyLen == 2      \* longest x-api-key header value (tokens)

\* --------------------------------------------------------------- constants
PoolMax == 10       \* new Pool({ max: 10 })
MaxSteps == 10      \* streamText({ maxSteps: 10 })

Null == <<"<null>">>
Undefined == <<"<undefined>">>
UndefinedStr == "<undefined>"

RECURSIVE SeqsUpTo(_, _)
SeqsUpTo(S, n) ==
  IF n = 0 THEN {<<>>}
  ELSE LET shorter == SeqsUpTo(S, n - 1)
       IN shorter \cup {Append(s, x) : s \in {t \in shorter : Len(t) = n - 1}, x \in S}

\* ------------------------------------------------------- JavaScript strings
\* a truthy value: neither null, undefined nor the empty string
Truthy(v) == v # Null /\ v # Undefined /\ v # <<>>

IsPrefixAt(s, pat, i) ==
  /\ i + Len(pat) - 1 <= Len(s)
  /\ \A j \in 1..Len(pat) : s[i + j - 1] = pat[j]

\* String.prototype.replace(pat, rep) with a string pattern: the first
\* occurrence of pat is replaced, the rest of the string is kept
Replace(s, pat, rep) ==
  LET hits == {i \in 1..Len(s) : IsPrefixAt(s, pat, i)}
  IN IF hits = {} THEN s
     ELSE LET i == CHOOSE h \in hits : \A g \in hits : h <= g
          IN SubSeq(s, 1, i - 1) \o rep \o SubSeq(s, i + Len(pat), Len(s))

Bearer == <<"Bearer", " ">>

\* the two headers the gate reads
Headers(authorization, apiKey) ==
  ("authorization" :> authorization) @@ ("x-api-key" :> apiKey)

\* req.headers.get(name): the value, or null when the header is absent
HeadersGet(headers, name) == headers[name]

\* ------------------------------------------------------ authentication gate
AuthorizedResult == [authorized |-> TRUE, error |-> <<>>]
RejectedResult == [authorized |-> FALSE, error |-> <<"Invalid or missing API key">>]

\* faulty variant: the x-api-key header is looked at first
ProvidedKeyApiFirst(headers) ==
  LET authHeader == HeadersGet(headers, "authorization")
      apiKeyHeader == HeadersGet(headers, "x-api-key")
      stripped == IF authHeader = Null THEN Undefined
                  ELSE Replace(authHeader, Bearer, <<>>)
  IN IF Truthy(apiKeyHeader) THEN apiKeyHeader ELSE stripped

\* authHeader?.replace('Bearer ', '') || apiKeyHeader
ProvidedKey(headers) ==
  LET authHeader == HeadersGet(headers, "authorization")
      apiKeyHeader == HeadersGet(headers, "x-api-key")
      stripped == IF authHeader = Null THEN Undefined
                  ELSE Replace(authHeader, Bearer, <<>>)
  IN IF Truthy(stripped) THEN stripped ELSE apiKeyHeader

\* faulty variant: the open-state early return is missing
authenticateRequestAlways(requiredApiKey, headers) ==
  IF ProvidedKey(headers) = requiredApiKey THEN AuthorizedResult ELSE RejectedResult

\* faulty variant: a request with no credential at all is let through
authenticateRequestLax(requiredApiKey, headers) ==
  IF ~Truthy(requiredApiKey) THEN AuthorizedResult
  ELSE IF ProvidedKey(headers) = requiredApiKey \/ ProvidedKey(headers) = Null
       THEN AuthorizedResult
       ELSE RejectedResult

\* faulty variant: the provided key only has to start with the secret
authenticateRequestPrefix(requiredApiKey, headers) ==
  IF ~Truthy(requiredApiKey) THEN AuthorizedResult
  ELSE IF IsPrefixAt(ProvidedKey(headers), requiredApiKey, 1)
       THEN AuthorizedResult
       ELSE RejectedResult

authenticateRequest(requiredApiKey, headers) ==
  IF ~Truthy(requiredApiKey) THEN AuthorizedResult
  ELSE IF ProvidedKey(headers) = requiredApiKey THEN AuthorizedResult
       ELSE RejectedResult

\* faulty variant: POST is wrapped whatever the environment holds at load time
PostIsWrappedAlways(keyAtLoad) == TRUE

\* export const POST = process.env.MCP_API_KEY ? withMcpAuth(...) : mcpHandler
PostIsWrapped(keyAtLoad) == Truthy(keyAtLoad)

\* withMcpAuth(handler, authenticateRequest), of the mcp-handler package, as
\* the Authentication Guide describes it: the handler runs only when the
\* check answers authorized; otherwise the error is returned (401)
WithMcpAuth(requiredApiKey, headers) == authenticateRequest(requiredApiKey, headers)


\* --------------------------------------------------------------- SQL texts
Rows == {"r1", "r2"}

ToUpperCaseToken(t) ==
  CASE t = "select" -> "SELECT"
    [] t = "with" -> "WITH"
    [] OTHER -> t

\* String.prototype.toUpperCase
ToUpperCase(s) == [i \in 1..Len(s) |-> ToUpperCaseToken(s[i])]

RECURSIVE TrimStart(_)
TrimStart(s) == IF s # <<>> /\ Head(s) = "ws" THEN TrimStart(Tail(s)) ELSE s

RECURSIVE TrimEnd(_)
TrimEnd(s) ==
  IF s # <<>> /\ s[Len(s)] = "ws" THEN TrimEnd(SubSeq(s, 1, Len(s) - 1)) ELSE s

\* String.prototype.trim
Trim(s) == TrimEnd(TrimStart(s))

\* String.prototype.startsWith
StartsWith(s, word) == s # <<>> /\ s[1] = word

\* the prefix allow-list of execute_query
IsAllowedQuery(query) ==
  LET trimmedQuery == ToUpperCase(Trim(query))
  IN StartsWith(trimmedQuery, "SELECT") \/ StartsWith(trimmedQuery, "WITH")

\* params = [] : the default of an omitted params
ParamsOrDefault(params) == IF params = Undefined THEN <<>> ELSE params

\* schema = 'public' : the default of an omitted schema
SchemaOrDefault(schema) == IF schema = UndefinedStr THEN "public" ELSE schema

\* faulty variant: the values are put into the text
CallInterpolated(query, params) == [query |-> query \o params, params |-> <<>>]

\* client.query(query, params): the text and the values go to the driver apart
Call(query, params) == [query |-> query, params |-> params]

BeginSql == <<"BEGIN">>
CommitSql == <<"COMMIT">>
RollbackSql == <<"ROLLBACK">>
ListTablesSql == <<"SELECT", "information_schema.tables">>
ColumnsSql == <<"SELECT", "information_schema.columns">>
PrimaryKeySql == <<"SELECT", "PRIMARY KEY">>
ForeignKeySql == <<"SELECT", "FOREIGN KEY">>
VersionSql == <<"SELECT", "version()">>
DbSizeSql == <<"SELECT", "pg_database_size">>
SchemataSql == <<"SELECT", "information_schema.schemata">>
CurrentDbSql == <<"SELECT", "current_database()">>

\* ------------------------------------------------------------ the database
\* PostgreSQL's view of a statement text: its command word, and whether it
\* inserts the row given as $1 (an INSERT, or a WITH whose CTE inserts)
Command(query) ==
  LET t == ToUpperCase(Trim(query)) IN IF t = <<>> THEN "EMPTY" ELSE t[1]

Inserts(query) == \E i \in 1..Len(query) : query[i] = "INSERT"

\* the tables a CREATE TABLE can add (rows of the catalog), in the order of
\* their names
TableObjects ==
  << [object |-> "public.orders", schema |-> "public", table_name |-> "orders"],
     [object |-> "public.users", schema |-> "public", table_name |-> "users"],
     [object |-> "sales.users", schema |-> "sales", table_name |-> "users"] >>

TableIds == {TableObjects[i].object : i \in 1..Len(TableObjects)}

\* SELECT table_name, table_type FROM information_schema.tables WHERE
\* table_schema = $1 ORDER BY table_name, over the objects a connection sees
ListedTables(objects, schema) ==
  LET listed(t) == t.object \in objects /\ t.schema = schema
      hits == SelectSeq(TableObjects, listed)
  IN [i \in 1..Len(hits) |->
        [table_name |-> hits[i].table_name, table_type |-> "BASE TABLE"]]

\* result.rows of a statement that succeeds on the connection cl
ResultRows(cl, call, db) ==
  IF call.query = ListTablesSql /\ Len(call.params) = 1
  THEN ListedTables(db \cup cl.pending, call.params[1])
  ELSE <<>>

NewClient == [busy |-> TRUE, tx |-> "none", pending |-> {}]

\* One statement on a live connection cl with the committed rows db:
\* [ok, tx, pending, db, command, rowCount].  Inside an aborted transaction
\* everything but COMMIT and ROLLBACK is refused; a failing statement
\* aborts an open transaction; outside a transaction a statement commits
\* on its own.
DbExec(cl, call, db) ==
  LET cmd == Command(call.query)
      fail == [ok |-> FALSE,
               tx |-> IF cl.tx = "open" THEN "aborted" ELSE cl.tx,
               pending |-> {}, db |-> db, command |-> cmd, rowCount |-> 0,
               rows |-> <<>>]
      done(tx, pending, newdb, n) ==
        [ok |-> TRUE, tx |-> tx, pending |-> pending, db |-> newdb,
         command |-> cmd, rowCount |-> n, rows |-> ResultRows(cl, call, db)]
      text == Trim(call.query)
  IN CASE cmd = "COMMIT" ->
            IF cl.tx = "open" THEN done("none", {}, db \cup cl.pending, 0)
            ELSE done("none", {}, db, 0)
       [] cmd = "ROLLBACK" -> done("none", {}, db, 0)
       [] cl.tx = "aborted" -> fail
       [] cmd = "BEGIN" ->
            done("open", IF cl.tx = "open" THEN cl.pending ELSE {}, db, 0)
       [] Inserts(call.query) ->
            IF call.params = <<>> \/ call.params[1] \notin Rows THEN fail
            ELSE IF cl.tx = "open"
                 THEN done("open", cl.pending \cup {call.params[1]}, db, 1)
                 ELSE done("none", {}, db \cup {call.params[1]}, 1)
       [] cmd = "CREATE" ->
            IF Len(text) < 2 \/ text[2] \notin TableIds \ (db \cup cl.pending)
            THEN fail
            ELSE IF cl.tx = "open"
                 THEN done("open", cl.pending \cup {text[2]}, db, 0)
                 ELSE done("none", {}, db \cup {text[2]}, 0)
       [] cmd \in {"SELECT", "WITH"} -> done(cl.tx, cl.pending, db, 0)
       [] OTHER -> fail

\* the connection is lost while the statement is awaited: the driver
\* rejects, the server rolls the open transaction back
DbLost(cl, call, db) ==
  [ok |-> FALSE, tx |-> "broken", pending |-> {}, db |-> db,
   command |-> Command(call.query), rowCount |-> 0, rows |-> <<>>]


\* ------------------------------------------------------------------- state
VARIABLES
  served,     \* the API modules this process has loaded ("mcp", "chat")
  loadKey,    \* process.env.MCP_API_KEY as read when api/mcp.js was loaded
  envKey,     \* process.env.MCP_API_KEY as read by authenticateRequest
  pool,       \* per module ("mcp", "chat"): the Pool instance `pool` holds, by
              \* its number in the order of construction; 0 while undefined
  clients,    \* per module: the pool's clients, id -> [busy, tx, pending]
  committed,  \* the rows committed in the database
  proc,       \* per request slot: the tool execution in flight
  openaiKey,  \* process.env.OPENAI_API_KEY
  health,     \* GET /api/mcp: the last request and the response it got
  chat        \* POST /api/chat: the request in flight

vars == <<served, loadKey, envKey, pool, clients, committed, proc,
          openaiKey, health, chat>>

Registries == {"mcp", "chat"}
ToolNames == {"execute_query", "execute_mutation", "list_tables",
              "describe_table", "execute_transaction", "get_database_info"}

\* ------------------------------------------------------------------ errors
\* An Error's message is kept in parts: the prefixes put before it by
\* template strings, the text of the original error, and the number of the
\* driver call (0: connect, or no driver call) that raised it.
Message(text, at) == [prefixes |-> <<>>, text |-> text, at |-> at]
Prefixed(prefix, message) == [message EXCEPT !.prefixes = <<prefix>> \o @]
NoMessage == Message("", 0)

OnlySelectText == "Only SELECT and WITH queries are allowed for execute_query"
RolledBackPrefix == "Transaction failed and rolled back: "

NoOutcome ==
  [kind |-> "none", success |-> "absent", thrownBy |-> "-",
   message |-> NoMessage, results |-> <<>>, rows |-> <<>>]

\* the 401 of the authentication gate
Unauthorized(error) ==
  [kind |-> "unauthorized", success |-> "absent", thrownBy |-> "-",
   message |-> Message(error[1], 0), results |-> <<>>, rows |-> <<>>]

\* an error that leaves execute as the driver raised it
ThrowRaw(message) ==
  [kind |-> "throw", success |-> "absent", thrownBy |-> "driver",
   message |-> message, results |-> <<>>, rows |-> <<>>]

McpPrefix(tool) ==
  CASE tool = "execute_query" -> "Query execution failed: "
    [] tool = "execute_mutation" -> "Mutation execution failed: "
    [] tool = "list_tables" -> "Failed to list tables: "
    [] tool = "describe_table" -> "Failed to describe table: "
    [] tool = "execute_transaction" -> RolledBackPrefix
    [] tool = "get_database_info" -> "Failed to get database info: "

\* the catch block of a tool, after any statement it awaits itself:
\* api/mcp.js throws a new Error with the tool's prefix, api/chat.js returns
\* {success: false, error} (prefixed only by execute_transaction)
Caught(reg, tool, message) ==
  IF reg = "mcp"
  THEN [kind |-> "throw", success |-> "absent", thrownBy |-> "tool",
        message |-> Prefixed(McpPrefix(tool), message), results |-> <<>>,
        rows |-> <<>>]
  ELSE [kind |-> "return", success |-> "false", thrownBy |-> "-",
        message |-> IF tool = "execute_transaction"
                    THEN Prefixed(RolledBackPrefix, message) ELSE message,
        results |-> <<>>, rows |-> <<>>]

\* the return of the try block: api/chat.js adds success: true to every
\* payload, api/mcp.js has it in execute_transaction's only; `results` are
\* the results of the driver calls awaited; the payload takes command and
\* rowCount (execute_mutation; execute_transaction, of the statements of the
\* batch: the results of BEGIN and COMMIT are dropped) or the rows of the
\* last (execute_query, list_tables)
Returned(reg, tool, results) ==
  [kind |-> "return",
   success |-> IF reg = "chat" \/ tool = "execute_transaction"
               THEN "true" ELSE "absent",
   thrownBy |-> "-", message |-> NoMessage,
   results |-> LET own == IF tool = "execute_transaction"
                          THEN SubSeq(results, 2, Len(results) - 1)
                          ELSE IF tool = "execute_mutation" THEN results
                          ELSE <<>>
               IN [i \in 1..Len(own) |->
                     [command |-> own[i].command, rowCount |-> own[i].rowCount]],
   rows |-> IF tool \in {"execute_query", "list_tables"}
            THEN results[Len(results)].rows ELSE <<>>]

\* --------------------------------------------------------------- the tools
\* faulty variant: the batch is sent last statement first
StatementsReversed(tool, args) ==
  CASE tool \in {"execute_query", "execute_mutation"} ->
         <<Call(args.query, ParamsOrDefault(args.params))>>
    [] tool = "list_tables" ->
         <<Call(ListTablesSql, <<SchemaOrDefault(args.schema)>>)>>
    [] tool = "describe_table" ->
         LET params == <<SchemaOrDefault(args.schema), args.tableName>>
         IN <<Call(ColumnsSql, params), Call(PrimaryKeySql, params),
              Call(ForeignKeySql, params)>>
    [] tool = "execute_transaction" ->
         <<Call(BeginSql, <<>>)>>
         \o [i \in 1..Len(args.queries) |->
               Call(args.queries[Len(args.queries) + 1 - i].query,
                    ParamsOrDefault(args.queries[Len(args.queries) + 1 - i].params))]
         \o <<Call(CommitSql, <<>>)>>
    [] tool = "get_database_info" ->
         <<Call(VersionSql, <<>>), Call(DbSizeSql, <<>>),
           Call(SchemataSql, <<>>), Call(CurrentDbSql, <<>>)>>

\* the driver calls a tool awaits in its try block, in order
Statements(tool, args) ==
  CASE tool \in {"execute_query", "execute_mutation"} ->
         <<Call(args.query, ParamsOrDefault(args.params))>>
    [] tool = "list_tables" ->
         <<Call(ListTablesSql, <<SchemaOrDefault(args.schema)>>)>>
    [] tool = "describe_table" ->
         LET params == <<SchemaOrDefault(args.schema), args.tableName>>
         IN <<Call(ColumnsSql, params), Call(PrimaryKeySql, params),
              Call(ForeignKeySql, params)>>
    [] tool = "execute_transaction" ->
         <<Call(BeginSql, <<>>)>>
         \o [i \in 1..Len(args.queries) |->
               Call(args.queries[i].query, ParamsOrDefault(args.queries[i].params))]
         \o <<Call(CommitSql, <<>>)>>
    [] tool = "get_database_info" ->
         <<Call(VersionSql, <<>>), Call(DbSizeSql, <<>>),
           Call(SchemataSql, <<>>), Call(CurrentDbSql, <<>>)>>

\* whether the tool's catch block awaits a ROLLBACK before it reports
RollsBack(tool) == tool = "execute_transaction"

\* faulty variant: execute_mutation refuses transaction control
RejectsTransactionControl(tool, args) ==
  \/ tool = "execute_query" /\ ~IsAllowedQuery(args.query)
  \/ tool = "execute_mutation"
       /\ Command(args.query) \in {"BEGIN", "COMMIT", "ROLLBACK"}

\* whether the try block throws before its first driver call
RejectsBeforeQuery(tool, args) ==
  tool = "execute_query" /\ ~IsAllowedQuery(args.query)

NoHeaders == Headers(Null, Null)

IdleProc ==
  [pc |-> "idle", reg |-> "-", headers |-> NoHeaders, tool |-> "-", args |-> <<>>,
   client |-> 0, idx |-> 0, err |-> NoMessage, results |-> <<>>,
   out |-> NoOutcome,
   connects |-> 0, acquired |-> 0, released |-> 0, releasedInTx |-> FALSE,
   sent |-> <<>>, answers |-> <<>>, db0 |-> {}]

Procs == DOMAIN proc

OpenAiKey1 == <<"sk">>

\* no GET /api/mcp answered yet
NoHealth ==
  [headers |-> NoHeaders, status |-> 0,
   body |-> [name |-> "", version |-> "", status |-> "", tools |-> <<>>]]

\* no POST /api/chat in flight
IdleChat ==
  [pc |-> "idle", headers |-> NoHeaders, body |-> "-", status |-> 0,
   error |-> "", steps |-> 0, streams |-> 0]

\* ---------------------------------------------------------------- the pool
\* faulty variant: a new Pool is constructed on every call
getPoolAlwaysNew(instance) == instance + 1

\* getPool(): `if (!pool) { pool = new Pool({...}) } return pool`
getPool(instance) == IF instance = 0 THEN 1 ELSE instance

\* faulty variant: the pool hands out a client whether it is checked out or not
IdleClientsOrBusy(reg) == DOMAIN clients[reg]

\* the clients connect() can hand out again
IdleClients(reg) == {c \in DOMAIN clients[reg] : ~clients[reg][c].busy}

\* faulty variant: release leaves the client checked out
ReleasedStaysBusy(cls, c) == cls

\* client.release(): the client goes back to the idle list; a client whose
\* connection is lost is removed from the pool
Released(cls, c) ==
  IF cls[c].tx = "broken"
  THEN [d \in DOMAIN cls \ {c} |-> cls[d]]
  ELSE [cls EXCEPT ![c].busy = FALSE]

WithClient(cls, c, cl) == [d \in DOMAIN cls \cup {c} |-> IF d = c THEN cl ELSE cls[d]]


\* ----------------------------------------------------------------- actions
\* The tool's execute starts: getPool() constructs the module's pool on
\* first use, connect() is called and awaited.
StartTool(p, reg, headers, tool, args) ==
  /\ proc' = [proc EXCEPT ![p] =
       [IdleProc EXCEPT !.pc = "connecting", !.reg = reg, !.headers = headers,
                        !.tool = tool, !.args = args, !.connects = 1,
                        !.db0 = committed]]
  /\ pool' = [pool EXCEPT ![reg] = getPool(@)]
  /\ UNCHANGED <<openaiKey, served, loadKey, envKey, clients, committed>>

\* the request is answered by the gate: the handler does not run
Reject(p, headers, tool, args, error) ==
  /\ proc' = [proc EXCEPT ![p] =
       [IdleProc EXCEPT !.pc = "done", !.reg = "mcp", !.headers = headers,
                        !.tool = tool, !.args = args, !.db0 = committed,
                        !.out = Unauthorized(error)]]
  /\ UNCHANGED <<openaiKey, served, loadKey, envKey, pool, clients, committed>>

\* faulty variant: the gate is applied without the open-state check
McpPostAlwaysChecked(p, headers, tool, args) ==
  /\ "mcp" \in served
  /\ proc[p].pc = "idle"
  /\ LET auth == authenticateRequestAlways(envKey, headers)
     IN IF ~auth.authorized
        THEN Reject(p, headers, tool, args, auth.error)
        ELSE StartTool(p, "mcp", headers, tool, args)
  /\ UNCHANGED <<health, chat>>

\* POST /api/mcp: behind the gate when the module wrapped it at load time
McpPost(p, headers, tool, args) ==
  /\ "mcp" \in served
  /\ proc[p].pc = "idle"
  /\ LET auth == WithMcpAuth(envKey, headers)
     IN IF PostIsWrapped(loadKey) /\ ~auth.authorized
        THEN Reject(p, headers, tool, args, auth.error)
        ELSE StartTool(p, "mcp", headers, tool, args)
  /\ UNCHANGED <<health, chat>>

\* a tool of api/chat.js is called by the inference loop
ChatToolCall(p, tool, args) ==
  /\ "chat" \in served
  /\ proc[p].pc = "idle"
  /\ StartTool(p, "chat", NoHeaders, tool, args)
  /\ UNCHANGED health

InTransaction(cl) == cl.tx \in {"open", "aborted"}

\* faulty variant: the finally block is missing, the client is never released
SettleNoRelease(p, pr, cls, outcome) ==
  /\ clients' = [clients EXCEPT ![pr.reg] = cls]
  /\ proc' = [proc EXCEPT ![p] = [pr EXCEPT !.pc = "done", !.out = outcome]]

\* the try/catch/finally is left with `outcome`: finally releases the client
Settle(p, pr, cls, outcome) ==
  /\ clients' = [clients EXCEPT ![pr.reg] = Released(cls, pr.client)]
  /\ proc' = [proc EXCEPT ![p] =
       [pr EXCEPT !.pc = "done", !.out = outcome, !.released = @ + 1,
                  !.releasedInTx = InTransaction(cls[pr.client])]]

\* faulty variant: execute_query of api/chat.js has no prefix check
ConnectOkChatUnchecked(p) ==
  LET pr == proc[p]
      cls == clients[pr.reg]
      idle == IdleClients(pr.reg)
      free == (1..PoolMax) \ DOMAIN cls
  IN /\ pr.pc = "connecting"
     /\ \E c \in 1..PoolMax :
          /\ IF idle # {} THEN c \in idle
             ELSE free # {} /\ c = CHOOSE f \in free : \A g \in free : f <= g
          /\ LET cl == IF c \in idle THEN [cls[c] EXCEPT !.busy = TRUE]
                       ELSE NewClient
                 held == WithClient(cls, c, cl)
                 got == [pr EXCEPT !.client = c, !.acquired = @ + 1]
             IN IF pr.reg = "mcp" /\ RejectsBeforeQuery(pr.tool, pr.args)
                THEN Settle(p, got, held,
                            Caught(pr.reg, pr.tool, Message(OnlySelectText, 0)))
                ELSE /\ clients' = [clients EXCEPT ![pr.reg] = held]
                     /\ proc' = [proc EXCEPT ![p] =
                          [got EXCEPT !.pc = "query", !.idx = 1]]
     /\ UNCHANGED <<openaiKey, health, chat, served, loadKey, envKey, pool, committed>>

\* connect() resolves with an idle client, or with a new one while the pool
\* holds fewer than max clients; execute runs on to its first await
ConnectOk(p) ==
  LET pr == proc[p]
      cls == clients[pr.reg]
      idle == IdleClients(pr.reg)
      free == (1..PoolMax) \ DOMAIN cls
  IN /\ pr.pc = "connecting"
     /\ \E c \in 1..PoolMax :
          /\ IF idle # {} THEN c \in idle
             ELSE free # {} /\ c = CHOOSE f \in free : \A g \in free : f <= g
          /\ LET cl == IF c \in idle THEN [cls[c] EXCEPT !.busy = TRUE]
                       ELSE NewClient
                 held == WithClient(cls, c, cl)
                 got == [pr EXCEPT !.client = c, !.acquired = @ + 1]
             IN IF RejectsBeforeQuery(pr.tool, pr.args)
                THEN Settle(p, got, held,
                            Caught(pr.reg, pr.tool, Message(OnlySelectText, 0)))
                ELSE /\ clients' = [clients EXCEPT ![pr.reg] = held]
                     /\ proc' = [proc EXCEPT ![p] =
                          [got EXCEPT !.pc = "query", !.idx = 1]]
     /\ UNCHANGED <<openaiKey, health, chat, served, loadKey, envKey, pool, committed>>

\* faulty variant: connect() is awaited inside the try, its error is caught
ConnectFailCaught(p) ==
  LET pr == proc[p]
  IN /\ pr.pc = "connecting"
     /\ IdleClients(pr.reg) = {}
     /\ proc' = [proc EXCEPT ![p] =
          [pr EXCEPT !.pc = "done",
                     !.out = Caught(pr.reg, pr.tool, Message("connect", 0))]]
     /\ UNCHANGED <<openaiKey, health, chat, served, loadKey, envKey, pool, clients, committed>>

\* connect() rejects (no idle client, and the database cannot be reached or
\* the pool stays full past connectionTimeoutMillis): it is awaited outside
\* the try, so the error leaves execute as it is
ConnectFail(p) ==
  LET pr == proc[p]
  IN /\ pr.pc = "connecting"
     /\ IdleClients(pr.reg) = {}
     /\ proc' = [proc EXCEPT ![p] =
          [pr EXCEPT !.pc = "done", !.out = ThrowRaw(Message("connect", 0))]]
     /\ UNCHANGED <<openaiKey, health, chat, served, loadKey, envKey, pool, clients, committed>>

\* what the driver answers to `call` on the client cl
DriverAnswer(cl, call, lost) ==
  IF cl.tx = "broken" \/ lost THEN DbLost(cl, call, committed)
  ELSE DbExec(cl, call, committed)

ErrorText(res) ==
  IF res.tx = "broken" THEN "connection lost" ELSE "statement failed"

\* the driver's answer as the execution sees it: resolved, or the error
Answer(res) == IF res.ok THEN "ok" ELSE ErrorText(res)

\* faulty variant: a statement that failed is sent again
QueryRetry(p) ==
  LET pr == proc[p]
      cls == clients[pr.reg]
      stmts == Statements(pr.tool, pr.args)
      call == stmts[pr.idx]
  IN /\ pr.pc = "query"
     /\ \E lost \in BOOLEAN :
          LET res == DriverAnswer(cls[pr.client], call, lost)
              after == [cls EXCEPT ![pr.client].tx = res.tx,
                                   ![pr.client].pending = res.pending]
              sent == Append(pr.sent, call)
              answers == Append(pr.answers, Answer(res))
              results == Append(pr.results,
                           [command |-> res.command, rowCount |-> res.rowCount,
                            rows |-> res.rows])
          IN /\ committed' = res.db
             /\ CASE res.ok /\ pr.idx < Len(stmts) ->
                       /\ clients' = [clients EXCEPT ![pr.reg] = after]
                       /\ proc' = [proc EXCEPT ![p] =
                            [pr EXCEPT !.idx = @ + 1, !.sent = sent,
                                       !.answers = answers,
                                       !.results = results]]
                  [] res.ok /\ pr.idx = Len(stmts) ->
                       Settle(p, [pr EXCEPT !.sent = sent, !.answers = answers,
                                        !.results = results],
                              after, Returned(pr.reg, pr.tool, results))
                  [] OTHER ->
                       /\ clients' = [clients EXCEPT ![pr.reg] = after]
                       /\ proc' = [proc EXCEPT ![p] =
                            [pr EXCEPT !.sent = sent, !.answers = answers]]
     /\ UNCHANGED <<openaiKey, health, chat, served, loadKey, envKey, pool>>

\* await client.query(...) of the try block resolves or rejects; execute
\* runs on to its next await or to its end
Query(p) ==
  LET pr == proc[p]
      cls == clients[pr.reg]
      stmts == Statements(pr.tool, pr.args)
      call == stmts[pr.idx]
  IN /\ pr.pc = "query"
     /\ \E lost \in BOOLEAN :
          LET res == DriverAnswer(cls[pr.client], call, lost)
              after == [cls EXCEPT ![pr.client].tx = res.tx,
                                   ![pr.client].pending = res.pending]
              sent == Append(pr.sent, call)
              answers == Append(pr.answers, Answer(res))
              results == Append(pr.results,
                           [command |-> res.command, rowCount |-> res.rowCount,
                            rows |-> res.rows])
              message == Message(ErrorText(res), Len(sent))
          IN /\ committed' = res.db
             /\ CASE res.ok /\ pr.idx < Len(stmts) ->
                       /\ clients' = [clients EXCEPT ![pr.reg] = after]
                       /\ proc' = [proc EXCEPT ![p] =
                            [pr EXCEPT !.idx = @ + 1, !.sent = sent,
                                       !.answers = answers,
                                       !.results = results]]
                  [] res.ok /\ pr.idx = Len(stmts) ->
                       Settle(p, [pr EXCEPT !.sent = sent, !.answers = answers,
                                        !.results = results],
                              after, Returned(pr.reg, pr.tool, results))
                  [] ~res.ok /\ RollsBack(pr.tool) ->
                       /\ clients' = [clients EXCEPT ![pr.reg] = after]
                       /\ proc' = [proc EXCEPT ![p] =
                            [pr EXCEPT !.pc = "rollback", !.sent = sent,
                                       !.answers = answers, !.err = message]]
                  [] OTHER ->
                       Settle(p, [pr EXCEPT !.sent = sent, !.answers = answers,
                                        !.err = message],
                              after, Caught(pr.reg, pr.tool, message))
     /\ UNCHANGED <<openaiKey, health, chat, served, loadKey, envKey, pool>>

\* faulty variant: a ROLLBACK that rejects is caught and reported as a failure
RollbackGuarded(p) ==
  LET pr == proc[p]
      cls == clients[pr.reg]
      call == Call(RollbackSql, <<>>)
  IN /\ pr.pc = "rollback"
     /\ \E lost \in BOOLEAN :
          LET res == DriverAnswer(cls[pr.client], call, lost)
              after == [cls EXCEPT ![pr.client].tx = res.tx,
                                   ![pr.client].pending = res.pending]
              sent == Append(pr.sent, call)
          IN /\ committed' = res.db
             /\ Settle(p, [pr EXCEPT !.sent = sent,
                                     !.answers = Append(@, Answer(res))], after,
                       Caught(pr.reg, pr.tool, pr.err))
     /\ UNCHANGED <<openaiKey, health, chat, served, loadKey, envKey, pool>>

\* await client.query('ROLLBACK') of execute_transaction's catch block: when
\* it resolves the caught error is reported, when it rejects its own error
\* leaves execute; finally releases the client either way
Rollback(p) ==
  LET pr == proc[p]
      cls == clients[pr.reg]
      call == Call(RollbackSql, <<>>)
  IN /\ pr.pc = "rollback"
     /\ \E lost \in BOOLEAN :
          LET res == DriverAnswer(cls[pr.client], call, lost)
              after == [cls EXCEPT ![pr.client].tx = res.tx,
                                   ![pr.client].pending = res.pending]
              sent == Append(pr.sent, call)
          IN /\ committed' = res.db
             /\ Settle(p, [pr EXCEPT !.sent = sent,
                                     !.answers = Append(@, Answer(res))], after,
                       IF res.ok THEN Caught(pr.reg, pr.tool, pr.err)
                       ELSE ThrowRaw(Message(ErrorText(res), Len(sent))))
     /\ UNCHANGED <<openaiKey, health, chat, served, loadKey, envKey, pool>>

\* the outcome has reached the caller
Return(p) ==
  /\ proc[p].pc = "done"
  /\ proc' = [proc EXCEPT ![p] = IdleProc]
  /\ UNCHANGED <<openaiKey, health, chat, served, loadKey, envKey, pool, clients, committed>>

\* ------------------------------------------------------- POST /api/chat
NotConfiguredText == "OPENAI_API_KEY is not configured"
\* error.message of what `await req.json()` or the destructuring throws
BodyErrorText == "<error.message>"

\* the body does not yield an object: req.json() rejects on text that is not
\* JSON, `const { messages } = null` throws
BodyThrows(body) == body \in {"malformed", "null"}

ChatFailed(headers, body, error) ==
  [pc |-> "done", headers |-> headers, body |-> body, status |-> 500,
   error |-> error, steps |-> 0, streams |-> 0]

ChatStreaming(headers, body) ==
  [pc |-> "streaming", headers |-> headers, body |-> body, status |-> 200,
   error |-> "", steps |-> 0, streams |-> 1]

\* faulty variant: the credential check is missing, streamText is always called
ChatPostNoKeyCheck(headers, body) ==
  /\ "chat" \in served
  /\ chat.pc = "idle"
  /\ chat' = IF BodyThrows(body) THEN ChatFailed(headers, body, BodyErrorText)
             ELSE ChatStreaming(headers, body)
  /\ UNCHANGED <<served, loadKey, envKey, pool, clients, committed, proc,
                 openaiKey, health>>

\* faulty variant: the endpoint is put behind the gate of /api/mcp
ChatPostGated(headers, body) ==
  /\ "chat" \in served
  /\ chat.pc = "idle"
  /\ chat' = IF ~authenticateRequest(envKey, headers).authorized
             THEN [ChatFailed(headers, body, "Invalid or missing API key")
                     EXCEPT !.status = 401]
             ELSE IF BodyThrows(body)
             THEN ChatFailed(headers, body, BodyErrorText)
             ELSE IF ~Truthy(openaiKey)
             THEN ChatFailed(headers, body, NotConfiguredText)
             ELSE ChatStreaming(headers, body)
  /\ UNCHANGED <<served, loadKey, envKey, pool, clients, committed, proc,
                 openaiKey, health>>

\* POST /api/chat up to its return: the body is read, then OPENAI_API_KEY is
\* looked at, then streamText is called and its stream returned
ChatPost(headers, body) ==
  /\ "chat" \in served
  /\ chat.pc = "idle"
  /\ chat' = IF BodyThrows(body) THEN ChatFailed(headers, body, BodyErrorText)
             ELSE IF ~Truthy(openaiKey)
             THEN ChatFailed(headers, body, NotConfiguredText)
             ELSE ChatStreaming(headers, body)
  /\ UNCHANGED <<served, loadKey, envKey, pool, clients, committed, proc,
                 openaiKey, health>>

\* faulty variant: the rounds of a request are not capped
ChatStepUncapped(p, tool, args) ==
  /\ chat.pc = "streaming"
  /\ ChatToolCall(p, tool, args)
  /\ chat' = [chat EXCEPT !.steps = @ + 1]

\* a round of streamText: the model asks for a tool call and the tool's
\* execute is called, while fewer than maxSteps rounds have been made
ChatStep(p, tool, args) ==
  /\ chat.pc = "streaming"
  /\ chat.steps < MaxSteps
  /\ ChatToolCall(p, tool, args)
  /\ chat' = [chat EXCEPT !.steps = @ + 1]

\* the stream ends: the model answers with text, or no round is left
ChatFinish ==
  /\ chat.pc = "streaming"
  /\ \A p \in Procs : proc[p].pc = "idle"
  /\ chat' = [chat EXCEPT !.pc = "done"]
  /\ UNCHANGED <<served, loadKey, envKey, pool, clients, committed, proc,
                 openaiKey, health>>

\* the response has reached the caller
ChatReturn ==
  /\ chat.pc = "done"
  /\ chat' = IdleChat
  /\ UNCHANGED <<served, loadKey, envKey, pool, clients, committed, proc,
                 openaiKey, health>>

\* the keys of the tools object of api/chat.js
ChatToolKeys == <<"execute_query", "execute_mutation", "list_tables",
                  "describe_table", "execute_transaction", "get_database_info">>

\* Object.keys(tools): the names in the order the object literal lists them
ToolKeys == <<"execute_query", "execute_mutation", "list_tables",
              "describe_table", "execute_transaction", "get_database_info">>

\* faulty variant: the health check is put behind the gate
McpGetGated(headers) ==
  /\ "mcp" \in served
  /\ LET auth == authenticateRequest(envKey, headers)
     IN health' =
          IF auth.authorized
          THEN [headers |-> headers, status |-> 200,
                body |-> [name |-> "postgres-mcp-server", version |-> "1.0.0",
                          status |-> "running", tools |-> ToolKeys]]
          ELSE [headers |-> headers, status |-> 401,
                body |-> [name |-> "", version |-> "", status |-> "",
                          tools |-> <<>>]]
  /\ UNCHANGED <<served, loadKey, envKey, pool, clients, committed, proc,
                 openaiKey, chat>>

\* GET /api/mcp, the health check: `req` is not read
McpGet(headers) ==
  /\ "mcp" \in served
  /\ health' =
       [headers |-> headers, status |-> 200,
        body |-> [name |-> "postgres-mcp-server", version |-> "1.0.0",
                  status |-> "running", tools |-> ToolKeys]]
  /\ UNCHANGED <<served, loadKey, envKey, pool, clients, committed, proc,
                 openaiKey, chat>>

\* process.env.MCP_API_KEY is given another value while the process runs:
\* the module's choice of POST stays, authenticateRequest reads the new value
EnvChange(key) ==
  /\ envKey # key
  /\ envKey' = key
  /\ UNCHANGED <<openaiKey, health, chat, served, loadKey, pool, clients,
                 committed, proc>>

\* faulty variant: a client is closed after the timeout while it is checked out
IdleTimeoutBusy(reg, c) ==
  /\ c \in DOMAIN clients[reg]
  /\ clients' = [clients EXCEPT ![reg] = [d \in DOMAIN @ \ {c} |-> @[d]]]
  /\ UNCHANGED <<openaiKey, health, chat, served, loadKey, envKey, pool, committed, proc>>

\* idleTimeoutMillis: the pool closes a client that stayed idle; the server
\* rolls back what the connection left open
IdleTimeout(reg, c) ==
  /\ c \in IdleClients(reg)
  /\ clients' = [clients EXCEPT ![reg] = [d \in DOMAIN @ \ {c} |-> @[d]]]
  /\ UNCHANGED <<openaiKey, health, chat, served, loadKey, envKey, pool, committed, proc>>


\* ------------------------------------------------------------------ inputs
Key1 == <<"k">>
InsertSql == <<"INSERT">>

\* execute_query: allowed texts (one lower case behind white space, one WITH
\* whose CTE inserts) and refused ones
QueryArgs ==
  { [query |-> <<"SELECT", "t">>, params |-> Undefined],
    [query |-> <<"ws", "select", "t", "ws">>, params |-> <<>>],
    [query |-> <<"with", "INSERT">>, params |-> <<"r1">>],
    [query |-> InsertSql, params |-> <<"r1">>],
    [query |-> <<"ws", "BEGIN">>, params |-> Undefined] }

\* statements of execute_mutation: valid inserts, an insert that fails (no
\* value for $1), transaction control
WriteArgs ==
  { [query |-> InsertSql, params |-> <<"r1">>],
    [query |-> InsertSql, params |-> <<"r2">>],
    [query |-> InsertSql, params |-> Undefined],
    [query |-> BeginSql, params |-> Undefined],
    [query |-> CommitSql, params |-> Undefined],
    [query |-> RollbackSql, params |-> Undefined] }

\* statements of a transaction batch
TxArgs ==
  { [query |-> InsertSql, params |-> <<"r1">>],
    [query |-> InsertSql, params |-> <<"r2">>],
    [query |-> InsertSql, params |-> Undefined],
    [query |-> CommitSql, params |-> Undefined],
    [query |-> RollbackSql, params |-> Undefined] }

Batches == {[queries |-> b] : b \in SeqsUpTo(TxArgs, MaxBatch)}

ToolCalls ==
  {<<"execute_query", a>> : a \in QueryArgs}
  \cup {<<"execute_mutation", a>> : a \in WriteArgs}
  \cup {<<"list_tables", [schema |-> s]>> : s \in {UndefinedStr, "sales"}}
  \cup {<<"describe_table", [tableName |-> "users", schema |-> s]>> :
          s \in {UndefinedStr, "sales"}}
  \cup {<<"execute_transaction", b>> : b \in Batches}
  \cup {<<"get_database_info", <<>> >>}

\* header values as req.headers.get returns them: no white space at either end
HeaderTokens == {"Bearer", " ", "k"}
HeaderValues(n) ==
  {v \in SeqsUpTo(HeaderTokens, n) : v = <<>> \/ (v[1] # " " /\ v[Len(v)] # " ")}

AllHeaders ==
  {Headers(a, k) : a \in {Null} \cup HeaderValues(MaxHdrLen),
                   k \in {Null} \cup HeaderValues(MaxKeyLen)}

\* the settings of MCP_API_KEY: unset, empty, and secrets
Secrets == {Key1, <<"k", "k">>, Bearer \o Key1}
KeySettings == {Undefined, <<>>} \cup Secrets

\* the headers of the health checks: no credential, the bearer form of Key1,
\* an x-api-key no secret equals
GetHeaders ==
  {NoHeaders, Headers(Bearer \o Key1, Null), Headers(Null, <<"Bearer">>)}

\* the tool calls sent through the gate in SpecAuth
GateToolCalls == {<<"execute_mutation", [query |-> InsertSql, params |-> <<"r1">>]>>}

\* ----------------------------------------------------------- specification
TypeOK ==
  /\ pool \in [Registries -> Nat]
  /\ \A r \in Registries : DOMAIN clients[r] \subseteq 1..PoolMax
  /\ committed \subseteq Rows \cup TableIds
  /\ \A p \in Procs :
       proc[p].pc \in {"idle", "connecting", "query", "rollback", "done"}

InitWith(modules, keys, procs) ==
  /\ served \in modules
  /\ loadKey \in keys
  /\ envKey = loadKey
  /\ pool = [r \in Registries |-> 0]
  /\ clients = [r \in Registries |-> <<>>]
  /\ committed = {}
  /\ proc = [p \in procs |-> IdleProc]
  /\ openaiKey = OpenAiKey1
  /\ health = NoHealth
  /\ chat = IdleChat

\* Each file under api/ is deployed as a serverless function of its own: a
\* process serves one module.  MCP_API_KEY is unset, or set in a process that
\* serves api/mcp.js.
Init ==
  \/ InitWith({{"mcp"}, {"chat"}}, {Undefined}, {1})
  \/ InitWith({{"mcp"}}, {Key1}, {1})

\* requests to POST /api/mcp, with headers of hs and tool calls of tcs
McpRequest(p, hs, tcs) ==
  /\ "mcp" \in served
  /\ proc[p].pc = "idle"
  /\ \E h \in hs, tc \in tcs : McpPost(p, h, tc[1], tc[2])

\* tool calls of tcs made by the inference loop of POST /api/chat; the
\* requests that make them are followed in SpecChat
ChatRequest(p, tcs) ==
  /\ "chat" \in served
  /\ proc[p].pc = "idle"
  /\ \E tc \in tcs : ChatToolCall(p, tc[1], tc[2])
  /\ UNCHANGED chat

Next ==
  \/ \E p \in Procs : McpRequest(p, {NoHeaders}, ToolCalls)
  \/ \E p \in Procs : ChatRequest(p, ToolCalls)
  \/ \E p \in Procs : ConnectOk(p)
  \/ \E p \in Procs : ConnectFail(p)
  \/ \E p \in Procs : Query(p)
  \/ \E p \in Procs : Rollback(p)
  \/ \E p \in Procs : Return(p)
  \/ \E r \in Registries, c \in 1..PoolMax : IdleTimeout(r, c)

\* the tools: the gate is open, or shut to the requests (none carries a
\* credential)
Spec == Init /\ [][Next]_vars

\* the gate: every setting of MCP_API_KEY, every pair of header values
InitAuth == InitWith({{"mcp"}}, KeySettings, {1})

NextAuth ==
  \/ \E p \in Procs : McpRequest(p, AllHeaders, GateToolCalls)
  \/ \E h \in GetHeaders : McpGet(h)
  \/ \E p \in Procs : ConnectOk(p)
  \/ \E p \in Procs : ConnectFail(p)
  \/ \E p \in Procs : Query(p)
  \/ \E p \in Procs : Return(p)
  \/ \E r \in Registries, c \in 1..PoolMax : IdleTimeout(r, c)

SpecAuth == InitAuth /\ [][NextAuth]_vars

\* the tool calls of the concurrent requests of SpecConc
ConcToolCalls ==
  { <<"get_database_info", <<>> >>,
    <<"execute_mutation", [query |-> InsertSql, params |-> <<"r1">>]>>,
    <<"execute_transaction",
      [queries |-> <<[query |-> InsertSql, params |-> <<"r2">>]>>]>> }

\* two requests in flight at once: their executions interleave at each await
InitConc == InitWith({{"mcp"}, {"chat"}}, {Undefined}, {1, 2})

NextConc ==
  \/ \E p \in Procs : McpRequest(p, {NoHeaders}, ConcToolCalls)
  \/ \E p \in Procs : ChatRequest(p, ConcToolCalls)
  \/ \E p \in Procs : ConnectOk(p)
  \/ \E p \in Procs : ConnectFail(p)
  \/ \E p \in Procs : Query(p)
  \/ \E p \in Procs : Rollback(p)
  \/ \E p \in Procs : Return(p)
  \/ \E r \in Registries, c \in 1..PoolMax : IdleTimeout(r, c)

SpecConc == InitConc /\ [][NextConc]_vars

\* POST /api/chat: bodies, header pairs (no credential, one no secret equals)
ChatBodies == {"malformed", "null", "messages"}
ChatHeaders == {NoHeaders, Headers(Null, <<"Bearer">>)}
OpenAiKeySettings == {Undefined, <<>>, OpenAiKey1}

\* the tool calls the model asks for in SpecChat: batches of every length
ChatToolCalls ==
  { <<"list_tables", [schema |-> UndefinedStr]>>,
    <<"get_database_info", <<>> >>,
    <<"execute_mutation", [query |-> InsertSql, params |-> <<"r1">>]>> }
  \cup {<<"execute_transaction", b>> :
          b \in {c \in Batches : \A i \in 1..Len(c.queries) :
                   c.queries[i] = [query |-> InsertSql, params |-> <<"r2">>]}}

InitChat ==
  /\ served = {"chat"}
  /\ loadKey \in {Undefined, Key1}
  /\ envKey = loadKey
  /\ openaiKey \in OpenAiKeySettings
  /\ pool = [r \in Registries |-> 0]
  /\ clients = [r \in Registries |-> <<>>]
  /\ committed = {}
  /\ proc = [p \in {1} |-> IdleProc]
  /\ health = NoHealth
  /\ chat = IdleChat

NextChat ==
  \/ \E h \in ChatHeaders, b \in ChatBodies : ChatPost(h, b)
  \/ \E p \in Procs, tc \in ChatToolCalls : ChatStep(p, tc[1], tc[2])
  \/ ChatFinish
  \/ ChatReturn
  \/ \E p \in Procs : ConnectOk(p)
  \/ \E p \in Procs : ConnectFail(p)
  \/ \E p \in Procs : Query(p)
  \/ \E p \in Procs : Rollback(p)
  \/ \E p \in Procs : Return(p)
  \/ \E r \in Registries, c \in 1..PoolMax : IdleTimeout(r, c)

SpecChat == InitChat /\ [][NextChat]_vars

\* the two registries side by side on one database: the same calls are made
\* of the tools of api/mcp.js (slot 1) and of api/chat.js (slot 2)
PairToolCalls ==
  { <<"execute_query", [query |-> <<"ws", "select", "t", "ws">>, params |-> <<>>]>>,
    <<"execute_query", [query |-> InsertSql, params |-> <<"r1">>]>>,
    <<"execute_mutation", [query |-> InsertSql, params |-> Undefined]>>,
    <<"list_tables", [schema |-> UndefinedStr]>>,
    <<"describe_table", [tableName |-> "users", schema |-> "sales"]>>,
    <<"execute_transaction",
      [queries |-> << [query |-> InsertSql, params |-> <<"r1">>],
                      [query |-> InsertSql, params |-> Undefined] >>]>>,
    <<"execute_transaction",
      [queries |-> <<[query |-> InsertSql, params |-> <<"r1">>]>>]>>,
    <<"get_database_info", <<>> >> }

InitPair == InitWith({{"mcp", "chat"}}, {Undefined}, {1, 2})

NextPair ==
  \/ McpRequest(1, {NoHeaders}, PairToolCalls)
  \/ ChatRequest(2, PairToolCalls)
  \/ \E p \in Procs : ConnectOk(p)
  \/ \E p \in Procs : ConnectFail(p)
  \/ \E p \in Procs : Query(p)
  \/ \E p \in Procs : Rollback(p)
  \/ \E p \in Procs : Return(p)
  \/ \E r \in Registries, c \in 1..PoolMax : IdleTimeout(r, c)

SpecPair == InitPair /\ [][NextPair]_vars

\* every driver call an execution awaits is answered in the end: the awaits
\* of the try block and of the catch block go on once the driver resolves or
\* rejects
NextLive ==
  \/ \E p \in Procs : McpRequest(p, {NoHeaders}, PairToolCalls)
  \/ \E p \in Procs : ChatRequest(p, PairToolCalls)
  \/ \E p \in Procs : ConnectOk(p)
  \/ \E p \in Procs : ConnectFail(p)
  \/ \E p \in Procs : Query(p)
  \/ \E p \in Procs : Rollback(p)
  \/ \E p \in Procs : Return(p)
  \/ \E r \in Registries, c \in 1..PoolMax : IdleTimeout(r, c)

SpecLive ==
  /\ Init
  /\ [][NextLive]_vars
  /\ WF_vars(Query(1))
  /\ WF_vars(Rollback(1))

\* the environment changes after api/mcp.js was loaded
InitEnv == InitWith({{"mcp"}}, {Undefined, Key1}, {1})

NextEnv ==
  \/ \E p \in Procs : McpRequest(p, GetHeaders, GateToolCalls)
  \/ \E key \in KeySettings : EnvChange(key)
  \/ \E p \in Procs : ConnectOk(p)
  \/ \E p \in Procs : ConnectFail(p)
  \/ \E p \in Procs : Query(p)
  \/ \E p \in Procs : Return(p)
  \/ \E r \in Registries, c \in 1..PoolMax : IdleTimeout(r, c)

SpecEnv == InitEnv /\ [][NextEnv]_vars

\* the catalog: tables are listed by two requests in flight at once, and
\* created (by execute_mutation, once behind a BEGIN) by the first of them
ListToolCalls ==
  {<<"list_tables", [schema |-> s]>> : s \in {UndefinedStr, "public", "sales"}}

CatalogToolCalls ==
  ListToolCalls
  \cup {<<"execute_mutation", [query |-> q, params |-> Undefined]>> :
          q \in {BeginSql, <<"CREATE", "public.orders">>,
                 <<"CREATE", "public.users">>}}

InitCatalog == InitWith({{"mcp"}}, {Undefined}, {1, 2})

NextCatalog ==
  \/ McpRequest(1, {NoHeaders}, CatalogToolCalls)
  \/ McpRequest(2, {NoHeaders}, ListToolCalls)
  \/ \E p \in Procs : ConnectOk(p)
  \/ \E p \in Procs : ConnectFail(p)
  \/ \E p \in Procs : Query(p)
  \/ \E p \in Procs : Return(p)
  \/ \E r \in Registries, c \in 1..PoolMax : IdleTimeout(r, c)

SpecCatalog == InitCatalog /\ [][NextCatalog]_vars


\* ------------------------------------------------------------------ claims
Finished(p) == proc[p].pc = "done"
Ran(p) == proc[p].pc # "idle" /\ proc[p].out.kind # "unauthorized"
Failed(out) == out.kind = "throw" \/ out.success = "false"

\* C1: an execute_query text that starts with neither SELECT nor WITH is
\* refused without any database contact: when the refusal is reported no
\* connection has been asked of the pool or acquired, no statement sent.
C1_RefusedWithoutDatabaseContact ==
  \A p \in Procs :
    ( /\ Finished(p)
      /\ proc[p].tool = "execute_query"
      /\ ~IsAllowedQuery(proc[p].args.query)
      /\ proc[p].out.message.text = OnlySelectText )
    => /\ proc[p].connects = 0
       /\ proc[p].acquired = 0
       /\ proc[p].sent = <<>>

\* the rows the valid INSERT statements of a batch insert
BatchRows(queries) ==
  {r \in Rows : \E i \in 1..Len(queries) :
     /\ Inserts(queries[i].query)
     /\ ParamsOrDefault(queries[i].params) = <<r>>}

\* C2: when a statement of the batch of execute_transaction fails, the result
\* is a failure and the database holds what it held before the call.
C2_FailedBatchHasNoEffect ==
  \A p \in Procs :
    ( /\ Finished(p)
      /\ proc[p].tool = "execute_transaction"
      /\ proc[p].err.text = "statement failed"
      /\ proc[p].err.at \in 2..(Len(proc[p].args.queries) + 1) )
    => /\ Failed(proc[p].out)
       /\ committed = proc[p].db0

\* C3: execute_transaction never returns success with a partial commit: with
\* success returned, it is not the case that one row of the batch has been
\* committed by the call while another row of the batch is not committed.
C3_NoSuccessWithPartialCommit ==
  \A p \in Procs :
    ( /\ Finished(p)
      /\ proc[p].tool = "execute_transaction"
      /\ proc[p].out.success = "true" )
    => LET rows == BatchRows(proc[p].args.queries)
       IN ~ ( /\ \E r \in rows : r \in committed \ proc[p].db0
              /\ \E r \in rows : r \notin committed )

\* C4: every failure inside execute_transaction (BEGIN, a batch statement,
\* COMMIT) is followed by a ROLLBACK, and the failure reported says that the
\* transaction was rolled back and carries the message of the error caught.
C4_FailureReportsRollback ==
  \A p \in Procs :
    ( /\ Finished(p)
      /\ proc[p].tool = "execute_transaction"
      /\ proc[p].err # NoMessage )
    => /\ proc[p].sent[Len(proc[p].sent)] = Call(RollbackSql, <<>>)
       /\ Failed(proc[p].out)
       /\ proc[p].out.message = Prefixed(RolledBackPrefix, proc[p].err)

ConnectRejected(out) == out.thrownBy = "driver" /\ out.message.text = "connect"

Holding(r) == {p \in Procs : proc[p].reg = r /\ proc[p].pc \in {"query", "rollback"}}
BusyClients(r) == {c \in DOMAIN clients[r] : clients[r][c].busy}

\* C5: a tool execution calls connect() once, and the client it acquired is
\* released exactly once by the time it ends, however it ends; a client is
\* checked out only while the execution that holds it is in flight.
C5_AcquiredReleasedOnce ==
  /\ \A p \in Procs :
       /\ proc[p].released <= proc[p].acquired
       /\ proc[p].acquired <= proc[p].connects
       /\ proc[p].connects <= 1
       /\ Ran(p) => proc[p].connects = 1
       /\ proc[p].pc \in {"query", "rollback"} =>
            /\ proc[p].acquired = 1 /\ proc[p].released = 0
            /\ proc[p].client \in BusyClients(proc[p].reg)
       /\ (Finished(p) /\ Ran(p)) =>
            /\ proc[p].released = proc[p].acquired
            /\ proc[p].acquired = IF ConnectRejected(proc[p].out) THEN 0 ELSE 1
  /\ \A r \in Registries :
       /\ Cardinality(BusyClients(r)) = Cardinality(Holding(r))
       /\ \A c \in BusyClients(r) : \E p \in Holding(r) : proc[p].client = c

\* an unexpected fault (ROLLBACK rejects in the catch block) and the client
\* is released all the same
C5_Witness ==
  \E p \in Procs :
    /\ Finished(p)
    /\ proc[p].tool = "execute_transaction"
    /\ proc[p].out.thrownBy = "driver"
    /\ proc[p].acquired = 1 /\ proc[p].released = 1
    /\ BusyClients(proc[p].reg) = {}

\* C6: no client is released while a transaction is open on it: no release
\* finds the client inside a transaction, no idle client of a pool is in one.
C6_NeverReleasedInTransaction ==
  /\ \A p \in Procs : ~proc[p].releasedInTx
  /\ \A r \in Registries : \A c \in IdleClients(r) : ~InTransaction(clients[r][c])

\* C7: a failure the driver reports while a tool runs on its client is
\* caught by the tool: no error of the driver's leaves execute.
C7_NoDriverErrorLeavesExecute ==
  \A p \in Procs :
    (Finished(p) /\ proc[p].acquired = 1) => proc[p].out.thrownBy # "driver"

Guarded == Truthy(loadKey) /\ Truthy(envKey)

\* C8: with a secret configured, a POST whose credential is missing or is
\* not the secret is answered 'Invalid or missing API key' and reaches no
\* tool: no connect(), no client, no statement, the database as it was.
C8_RejectedBeforeRegistry ==
  \A p \in Procs :
    ( /\ proc[p].pc # "idle"
      /\ proc[p].reg = "mcp"
      /\ Guarded
      /\ ProvidedKey(proc[p].headers) # envKey )
    => /\ Finished(p)
       /\ proc[p].out.kind = "unauthorized"
       /\ proc[p].out.message = Message("Invalid or missing API key", 0)
       /\ proc[p].connects = 0
       /\ proc[p].acquired = 0
       /\ proc[p].sent = <<>>
       /\ committed = proc[p].db0
       /\ BusyClients("mcp") = {}

\* a request with a wrong x-api-key is rejected while the same tool call,
\* authorized earlier, has left its row in the database
C8_Witness ==
  \E p \in Procs :
    /\ Guarded
    /\ proc[p].out.kind = "unauthorized"
    /\ proc[p].headers["authorization"] = Null
    /\ Truthy(proc[p].headers["x-api-key"])
    /\ committed = {"r1"}

\* the request of slot p was let through the gate
Authorized(p) == proc[p].reg = "mcp" /\ Ran(p)

\* the request of slot p is one authenticateRequest answers authorized, or
\* one that was let through
Accepted(p) ==
  /\ proc[p].reg = "mcp"
  /\ Ran(p) \/ authenticateRequest(envKey, proc[p].headers).authorized

\* the secret with 'Bearer ' put in at one place
BearerForms(secret) ==
  {SubSeq(secret, 1, i) \o Bearer \o SubSeq(secret, i + 1, Len(secret)) :
     i \in 0..Len(secret)}

\* C9 as stated: with a secret configured a request is authorized only if it
\* carries Authorization: Bearer <secret> or an x-api-key that is the secret.
C9_OnlyBearerOrApiKey ==
  \A p \in Procs :
    (Guarded /\ Accepted(p)) =>
      \/ proc[p].headers["authorization"] = Bearer \o envKey
      \/ proc[p].headers["x-api-key"] = envKey

\* C9 as amended: with a secret configured a request is authorized only if
\* its Authorization value is the secret with 'Bearer ' put in at one place
\* (in front: Bearer <secret>) or the secret itself, or its x-api-key is the
\* secret.
C9_OnlySecretCarriers ==
  \A p \in Procs :
    (Guarded /\ Accepted(p)) =>
      \/ proc[p].headers["authorization"] \in BearerForms(envKey) \cup {envKey}
      \/ proc[p].headers["x-api-key"] = envKey

\* a request authorized on the bare secret in Authorization
C9_Witness ==
  \E p \in Procs :
    /\ Guarded /\ Authorized(p)
    /\ Finished(p) /\ proc[p].out.kind = "return"
    /\ proc[p].headers["authorization"] = envKey
    /\ proc[p].headers["x-api-key"] = Null

\* C10: with no secret configured every request is authorized, whatever
\* credential it carries.
C10_OpenAuthorizesAll ==
  \A p \in Procs :
    (~Truthy(envKey) /\ proc[p].reg = "mcp") =>
      /\ proc[p].out.kind # "unauthorized"
      /\ proc[p].connects = 1

\* in open state a request with an arbitrary credential runs its tool
C10_Witness ==
  \E p \in Procs :
    /\ Finished(p) /\ proc[p].reg = "mcp"
    /\ ~Truthy(envKey)
    /\ Truthy(proc[p].headers["authorization"])
    /\ proc[p].out.kind = "return"

\* the request of slot p carries both headers
BothHeaders(p) ==
  /\ proc[p].reg = "mcp" /\ proc[p].pc # "idle"
  /\ proc[p].headers["authorization"] # Null
  /\ proc[p].headers["x-api-key"] # Null

\* the credential of the Authorization header: its value without 'Bearer '
BearerCredential(p) == Replace(proc[p].headers["authorization"], Bearer, <<>>)

\* C11 as stated: in guarded state a request with both headers is decided on
\* the bearer credential alone, whatever the x-api-key header holds.
C11_BearerAloneDecides ==
  \A p \in Procs :
    (Guarded /\ BothHeaders(p)) =>
      (Authorized(p) <=> BearerCredential(p) = envKey)

\* C11 as amended: in guarded state a request with both headers, whose
\* bearer credential is not empty, is decided on the bearer credential alone;
\* with an empty one the x-api-key header decides.
C11_NonEmptyBearerDecides ==
  \A p \in Procs :
    (Guarded /\ BothHeaders(p)) =>
      (Authorized(p) <=>
         IF BearerCredential(p) # <<>> THEN BearerCredential(p) = envKey
         ELSE proc[p].headers["x-api-key"] = envKey)

\* a request let through on its bearer credential, with an x-api-key that is
\* not the secret
C11_Witness ==
  \E p \in Procs :
    /\ Guarded /\ BothHeaders(p)
    /\ Finished(p) /\ proc[p].out.kind = "return"
    /\ proc[p].headers["authorization"] = Bearer \o envKey
    /\ Truthy(proc[p].headers["x-api-key"])
    /\ proc[p].headers["x-api-key"] # envKey

\* the Pool instances the process has constructed
PoolsMade == pool["mcp"] + pool["chat"]

\* C12: a process holds at most one Pool instance; it is constructed by the
\* first getPool() (no tool has run before it, every tool that runs finds
\* it), every later getPool() returns that instance, and `pool` is never
\* reset or given another instance.
C12_OnePoolPerProcess ==
  /\ [](/\ PoolsMade <= 1
        /\ \A r \in Registries :
             /\ pool[r] = 0 => clients[r] = <<>>
             /\ \A p \in Procs :
                  (proc[p].reg = r /\ proc[p].connects > 0) => pool[r] = 1)
  /\ [][\A r \in Registries : pool[r] # 0 => pool'[r] = pool[r]]_vars

\* two requests run their tools at once on two clients of the one pool
C12_Witness ==
  /\ PoolsMade = 1
  /\ \A p \in Procs : proc[p].pc = "query"
  /\ \E r \in Registries : Cardinality(BusyClients(r)) = 2

\* C13: the health check is answered 200 with the server's name, version,
\* status and the six tool names, for any headers, in open and in guarded
\* state, and the step that answers it leaves pool, clients, database and
\* tool executions as they are.
C13_HealthNeverAuthenticated ==
  /\ [](health # NoHealth =>
          /\ health.status = 200
          /\ health.body.name = "postgres-mcp-server"
          /\ health.body.version = "1.0.0"
          /\ health.body.status = "running"
          /\ Len(health.body.tools) = 6
          /\ {health.body.tools[i] : i \in 1..6} = ToolNames)
  /\ [][health' # health =>
          UNCHANGED <<pool, clients, committed, proc>>]_vars

\* in guarded state a health check with a credential that is not the secret
\* is answered 200 before the pool exists
C13_Witness ==
  /\ Guarded
  /\ health.status = 200
  /\ ~authenticateRequest(envKey, health.headers).authorized
  /\ pool["mcp"] = 0

\* the j-th call sent is a transaction command of the tool's own
OwnTxCommand(call) ==
  call.params = <<>> /\ call.query \in {BeginSql, CommitSql, RollbackSql}

\* C14: no value a caller supplies is put into an SQL text: execute_query,
\* execute_mutation and execute_transaction send the caller's text as it is
\* with the values in the array of their own; list_tables and describe_table
\* send constant texts, with schema and tableName in the array.
C14_ParamsNeverInterpolated ==
  \A p \in Procs :
    LET pr == proc[p]
        given(a) == [query |-> a.query,
                     params |-> IF a.params = Undefined THEN <<>> ELSE a.params]
        schema == IF pr.args.schema = UndefinedStr THEN "public" ELSE pr.args.schema
    IN \A j \in 1..Len(pr.sent) :
         CASE pr.tool \in {"execute_query", "execute_mutation"} ->
                pr.sent[j] = given(pr.args)
           [] pr.tool = "execute_transaction" ->
                \/ OwnTxCommand(pr.sent[j])
                \/ /\ j - 1 \in 1..Len(pr.args.queries)
                   /\ pr.sent[j] = given(pr.args.queries[j - 1])
           [] pr.tool = "list_tables" ->
                /\ pr.sent[j].query = ListTablesSql
                /\ pr.sent[j].params = <<schema>>
           [] pr.tool = "describe_table" ->
                /\ pr.sent[j].query = <<ColumnsSql, PrimaryKeySql, ForeignKeySql>>[j]
                /\ pr.sent[j].params = <<schema, pr.args.tableName>>
           [] OTHER -> pr.sent[j].params = <<>>

\* a batch has sent a caller's text with its value beside it, and the row
\* is in the database
C14_Witness ==
  \E p \in Procs :
    /\ Finished(p)
    /\ proc[p].tool = "execute_transaction"
    /\ Len(proc[p].sent) >= 3
    /\ proc[p].sent[2] = [query |-> InsertSql, params |-> <<"r1">>]
    /\ "r1" \in committed

\* C15: execute_query is read-only: while it runs and when it has ended the
\* database holds what it held when the call came in.
C15_ExecuteQueryReadOnly ==
  \A p \in Procs :
    (proc[p].pc # "idle" /\ proc[p].tool = "execute_query") =>
      committed = proc[p].db0

\* the request in flight has touched neither the inference service nor a
\* tool nor the pool
ChatUntouched ==
  /\ chat.streams = 0 /\ chat.steps = 0
  /\ pool["chat"] = 0 /\ clients["chat"] = <<>>
  /\ \A p \in Procs : proc[p].pc = "idle"
  /\ committed = {}

C17_RoundsCapped ==
  /\ [](chat.steps <= 10)
  /\ [][/\ (chat.pc # "streaming" /\ chat'.pc = "streaming") => chat'.steps = 0
        /\ (\E p \in Procs : proc[p].pc = "idle" /\ proc'[p].pc # "idle")
             => chat'.steps = chat.steps + 1]_vars

\* the tenth round of a request runs a batch of two statements or more
C17_Witness ==
  /\ chat.pc = "streaming"
  /\ chat.steps = 10
  /\ \E p \in Procs :
       /\ Finished(p)
       /\ proc[p].tool = "execute_transaction"
       /\ Len(proc[p].args.queries) >= 2
       /\ proc[p].out.success = "true"

\* C18: POST /api/chat is not behind the MCP_API_KEY gate: with the inference
\* credential configured, a request with messages is streamed (200) whatever
\* credential it carries, and no tool call of its is answered unauthorized.
C18_ChatNotAuthenticated ==
  /\ (chat.pc # "idle" /\ Truthy(openaiKey) /\ chat.body = "messages") =>
       /\ chat.status = 200
       /\ chat.streams = 1
  /\ \A p \in Procs :
       proc[p].reg = "chat" => proc[p].out.kind # "unauthorized"

\* in guarded state a request without the secret has run execute_mutation
\* and its row is in the database
C18_Witness ==
  /\ Truthy(envKey)
  /\ chat.pc = "streaming"
  /\ ~authenticateRequest(envKey, chat.headers).authorized
  /\ \E p \in Procs :
       /\ Finished(p)
       /\ proc[p].tool = "execute_mutation"
       /\ proc[p].out.success = "true"
       /\ "r1" \in committed

\* the most driver calls a tool makes: its statements, and for a batch
\* BEGIN, COMMIT and ROLLBACK
MostCalls(tool, args) ==
  CASE tool = "describe_table" -> 3
    [] tool = "get_database_info" -> 4
    [] tool = "execute_transaction" -> Len(args.queries) + 3
    [] OTHER -> 1

\* C20: nothing is retried: a tool calls connect() once and sends each of
\* its statements at most once; after a statement failed nothing more is
\* sent but the one ROLLBACK of a batch; and once a failure (of a query, of
\* the authorization, of a transaction) is reported the request is over.
C20_NoRetries ==
  /\ [](\A p \in Procs :
          LET pr == proc[p]
          IN pr.pc # "idle" =>
               /\ pr.connects <= 1
               /\ Len(pr.sent) <= MostCalls(pr.tool, pr.args)
               /\ pr.err # NoMessage =>
                    Len(pr.sent) <= pr.err.at +
                      (IF pr.tool = "execute_transaction" THEN 1 ELSE 0)
               /\ pr.tool = "execute_transaction" =>
                    \A j \in 2..Len(pr.sent) :
                      \/ /\ j - 1 \in 1..Len(pr.args.queries)
                         /\ pr.sent[j].query = pr.args.queries[j - 1].query
                      \/ /\ j = Len(pr.args.queries) + 2
                         /\ pr.sent[j].query = CommitSql
                      \/ /\ j = Len(pr.sent) /\ pr.err # NoMessage
                         /\ pr.sent[j].query = RollbackSql
               /\ pr.out.kind = "unauthorized" => (pr.connects = 0 /\ pr.sent = <<>>))
  /\ [][\A p \in Procs :
          Finished(p) => (proc'[p] = proc[p] \/ proc'[p] = IdleProc)]_vars

\* a batch whose second statement failed: that statement was sent once, the
\* ROLLBACK followed, the failure is reported
C20_Witness ==
  \E p \in Procs :
    /\ Finished(p)
    /\ proc[p].tool = "execute_transaction"
    /\ Len(proc[p].args.queries) = 3
    /\ proc[p].err.text = "statement failed" /\ proc[p].err.at = 3
    /\ Len(proc[p].sent) = 4
    /\ Failed(proc[p].out)

\* the clients the execution of slot p has checked out
HeldBy(p) == proc[p].acquired - proc[p].released

\* C21: a tool execution holds at most one client at a time, and the tool
\* calls a conversational request makes one after the other each acquire and
\* release a client of their own: when a call starts, and whenever no call
\* is between its acquire and its release, no client of the pool is checked
\* out; the pool of such a process never needs a second client.
C21_OneConnectionPerCall ==
  /\ [](/\ \A p \in Procs : HeldBy(p) \in {0, 1}
        /\ Cardinality(BusyClients("chat")) <= 1
        /\ Cardinality(DOMAIN clients["chat"]) <= 1
        /\ (\A p \in Procs : proc[p].pc \in {"idle", "connecting", "done"})
             => BusyClients("chat") = {})
  /\ [][\A p \in Procs :
          (proc[p].pc = "idle" /\ proc'[p].pc # "idle")
            => BusyClients("chat") = {}]_vars

\* the second tool call of a request, get_database_info, awaits its fourth
\* statement on the one client of the pool
C21_Witness ==
  /\ chat.pc = "streaming" /\ chat.steps = 2
  /\ \E p \in Procs :
       /\ proc[p].tool = "get_database_info"
       /\ proc[p].pc = "query" /\ proc[p].idx = 4
       /\ HeldBy(p) = 1
       /\ BusyClients("chat") = {proc[p].client}
       /\ DOMAIN clients["chat"] = {proc[p].client}

\* the list_tables call of slot p has returned its tables, and the committed
\* catalog has not changed since the call came in
Listed(p) ==
  /\ Finished(p)
  /\ proc[p].tool = "list_tables"
  /\ proc[p].out.kind = "return"
  /\ proc[p].db0 = committed

\* C22: list_tables is idempotent and read-only: two calls with the same
\* schema argument (an omitted one counting as 'public') and no change of
\* the schema between them return the same tables in the same order, and a
\* call leaves the database as it was.
C22_ListTablesIdempotent ==
  /\ [](\A p, q \in Procs :
          ( /\ Listed(p) /\ Listed(q)
            /\ SchemaOrDefault(proc[p].args.schema)
                 = SchemaOrDefault(proc[q].args.schema) )
          => proc[p].out.rows = proc[q].out.rows)
  /\ [][\A p \in Procs :
          (proc[p].tool = "list_tables" /\ proc'[p] # proc[p])
            => committed' = committed]_vars

\* the i-th statement of the batch as the loop sends it
BatchCall(queries, i) ==
  [query |-> queries[i].query,
   params |-> IF queries[i].params = Undefined THEN <<>> ELSE queries[i].params]

\* C23: execute_transaction sends BEGIN, then the statements of the batch in
\* the order submitted, then COMMIT, all on the client it acquired; after
\* the first statement that fails no later statement of the batch is sent
\* (only the ROLLBACK); on success the results hold one {command, rowCount}
\* per statement, in the order of the batch.
C23_BatchInOrder ==
  /\ [](\A p \in Procs :
          LET pr == proc[p]
              n == Len(pr.args.queries)
              own == IF pr.err # NoMessage /\ Len(pr.sent) > pr.err.at
                     THEN pr.err.at ELSE Len(pr.sent)
          IN (pr.pc # "idle" /\ pr.tool = "execute_transaction") =>
               /\ own <= n + 2
               /\ \A j \in 1..own :
                    pr.sent[j] = IF j = 1 THEN [query |-> <<"BEGIN">>, params |-> <<>>]
                                 ELSE IF j = n + 2
                                 THEN [query |-> <<"COMMIT">>, params |-> <<>>]
                                 ELSE BatchCall(pr.args.queries, j - 1)
               /\ Len(pr.sent) > own =>
                    /\ Len(pr.sent) = own + 1
                    /\ pr.sent[own + 1] = [query |-> <<"ROLLBACK">>, params |-> <<>>]
               /\ pr.err # NoMessage => pr.err.at = own
               /\ pr.out.success = "true" =>
                    /\ Len(pr.sent) = n + 2
                    /\ Len(pr.out.results) = n
                    /\ \A i \in 1..n :
                         /\ pr.out.results[i].command
                              = Command(pr.args.queries[i].query)
                         /\ pr.out.results[i].rowCount
                              = IF Inserts(pr.args.queries[i].query) THEN 1 ELSE 0)
  /\ [][\A p \in Procs :
          (proc[p].pc \in {"query", "rollback"} /\ proc'[p].pc # "idle")
            => proc'[p].client = proc[p].client]_vars

\* a batch of three different statements has succeeded
C23_Witness ==
  \E p \in Procs :
    /\ Finished(p)
    /\ proc[p].tool = "execute_transaction"
    /\ proc[p].out.success = "true"
    /\ Len(proc[p].sent) = 5
    /\ proc[p].out.results = << [command |-> "INSERT", rowCount |-> 1],
                                [command |-> "COMMIT", rowCount |-> 0],
                                [command |-> "INSERT", rowCount |-> 1] >>
    /\ proc[p].args.queries[1].params # proc[p].args.queries[3].params

\* C24: execute_transaction sends its ROLLBACK exactly once when BEGIN, a
\* statement of the batch or COMMIT has failed, as the call after the failed
\* one, and never after a COMMIT that succeeded; when the ROLLBACK itself
\* fails the client is still released exactly once and the ROLLBACK's error
\* leaves execute as the driver raised it, not as a failure result.
C24_RollbackOnceOnFailure ==
  /\ [](\A p \in Procs :
          LET pr == proc[p]
              n == Len(pr.args.queries)
              last == pr.sent[Len(pr.sent)]
          IN (Finished(p) /\ pr.tool = "execute_transaction" /\ pr.acquired = 1) =>
               /\ pr.released = 1
               /\ pr.err # NoMessage =>
                    /\ pr.err.at \in 1..(n + 2)
                    /\ Len(pr.sent) = pr.err.at + 1
                    /\ last = [query |-> <<"ROLLBACK">>, params |-> <<>>]
                    /\ pr.out.success # "true"
               /\ pr.err = NoMessage =>
                    /\ Len(pr.sent) = n + 2
                    /\ last = [query |-> <<"COMMIT">>, params |-> <<>>]
                    /\ pr.out.success = "true")
  /\ [][\A p \in Procs :
          (proc[p].pc = "rollback" /\ proc'[p].pc = "done") =>
            /\ proc'[p].released = 1
            /\ proc[p].client \notin BusyClients(proc[p].reg)'
            /\ IF proc[p].client \in DOMAIN clients'[proc[p].reg]
               THEN \* the ROLLBACK resolved
                    /\ Failed(proc'[p].out)
                    /\ proc'[p].out.thrownBy # "driver"
               ELSE \* the connection was lost: the ROLLBACK rejected
                    /\ proc'[p].out.kind = "throw"
                    /\ proc'[p].out.thrownBy = "driver"
                    /\ proc'[p].out.success = "absent"
                    /\ proc'[p].out.message.prefixes = <<>>
                    /\ proc'[p].out.message.at = Len(proc'[p].sent)]_vars

\* COMMIT failed, the one ROLLBACK failed too: its error has left execute and
\* the client is back in no execution's hands
C24_Witness ==
  \E p \in Procs :
    /\ Finished(p)
    /\ proc[p].tool = "execute_transaction"
    /\ Len(proc[p].args.queries) = 2
    /\ proc[p].err.at = 4
    /\ Len(proc[p].sent) = 5
    /\ proc[p].out.kind = "throw" /\ proc[p].out.message.at = 5
    /\ proc[p].released = 1

\* the execution of slot p has ended without a client: its connect() rejected
ConnectFailed(p) == Finished(p) /\ Ran(p) /\ proc[p].acquired = 0

\* C25: when connect() rejects, the tool (any of the six, of either
\* registry) sends no statement and releases nothing, and the error of the
\* acquisition leaves execute as the driver raised it: thrown, not prefixed,
\* not turned into a failure result; pool and database stay as they were.
C25_ConnectFailureUnwrapped ==
  /\ [](\A p \in Procs :
          ConnectFailed(p) =>
            /\ proc[p].connects = 1
            /\ proc[p].sent = <<>>
            /\ proc[p].released = 0
            /\ proc[p].out.kind = "throw"
            /\ proc[p].out.thrownBy = "driver"
            /\ proc[p].out.success = "absent"
            /\ proc[p].out.message = [prefixes |-> <<>>, text |-> "connect", at |-> 0])
  /\ [][\A p \in Procs :
          (proc[p].pc = "connecting" /\ proc'[p].pc = "done" /\ proc'[p].acquired = 0)
            => UNCHANGED <<clients, committed, pool>>]_vars

\* connect() rejected for execute_transaction of api/chat.js: the error is
\* thrown, no {success: false} is returned
C25_Witness ==
  \E p \in Procs :
    /\ ConnectFailed(p)
    /\ proc[p].reg = "chat"
    /\ proc[p].tool = "execute_transaction"
    /\ Len(proc[p].args.queries) = 2
    /\ proc[p].out.kind = "throw"
    /\ proc[p].sent = <<>>

\* C26: the gate reads MCP_API_KEY twice: when the module is loaded (whether
\* POST is wrapped, fixed from then on) and at each request (in
\* authenticateRequest).  A request is rejected exactly when the key was set
\* at load time, is set when the request comes in, and is not the credential
\* the request carries; with no key at load time no request is ever
\* rejected, whatever is configured later.
C26_TwoReadsDecide ==
  /\ [](\A p \in Procs :
          ~Truthy(loadKey) => proc[p].out.kind # "unauthorized")
  /\ [][/\ loadKey' = loadKey
        /\ \A p \in Procs :
             (proc[p].pc = "idle" /\ proc'[p].pc # "idle" /\ proc'[p].reg = "mcp") =>
               ( proc'[p].out.kind = "unauthorized"
                 <=> /\ Truthy(loadKey)
                     /\ Truthy(envKey)
                     /\ ProvidedKey(proc'[p].headers) # envKey )]_vars

\* a secret was configured after the module was loaded without one: a
\* request with no credential has run its tool and its row is committed
C26_Witness ==
  \E p \in Procs :
    /\ ~Truthy(loadKey) /\ Truthy(envKey)
    /\ Finished(p) /\ proc[p].reg = "mcp"
    /\ proc[p].headers = NoHeaders
    /\ proc[p].out.kind = "return"
    /\ proc[p].db0 = {} /\ committed = {"r1"}

IsPrefix(a, b) == Len(a) <= Len(b) /\ SubSeq(b, 1, Len(a)) = a

\* what the driver has answered to the execution of slot p: to connect(),
\* once it has answered, and to each call sent, with the results
Answers(p) ==
  [connected |-> IF proc[p].pc = "connecting" THEN "-"
                 ELSE IF proc[p].acquired = 1 THEN "ok" ELSE "rejected",
   answers |-> proc[p].answers,
   results |-> proc[p].results]

\* the operations the execution of slot p has made on pool and connection
Operations(p) ==
  [connects |-> proc[p].connects, acquired |-> proc[p].acquired,
   released |-> proc[p].released, sent |-> proc[p].sent]

\* the outcome of api/mcp.js and that of api/chat.js are one outcome in two
\* shapes: payload / {success: true, payload}; throw new Error(prefix +
\* message) / {success: false, error: message}; the driver's error as it is
SameOutcome(m, c) ==
  CASE m.kind = "return" ->
         /\ c.kind = "return" /\ c.success = "true"
         /\ c.results = m.results /\ c.rows = m.rows
    [] m.thrownBy = "tool" ->
         /\ c.kind = "return" /\ c.success = "false"
         /\ c.message.text = m.message.text /\ c.message.at = m.message.at
    [] OTHER -> c = m

C28_ClientExclusive ==
  /\ [](\A p, q \in Procs :
          ( /\ p # q
            /\ proc[p].reg = proc[q].reg
            /\ HeldBy(p) = 1 /\ HeldBy(q) = 1 )
          => proc[p].client # proc[q].client)
  /\ [][\A p \in Procs :
          (HeldBy(p) = 1 /\ proc'[p] = proc[p]) =>
            /\ proc[p].client \in DOMAIN clients'[proc[p].reg]
            /\ clients'[proc[p].reg][proc[p].client]
                 = clients[proc[p].reg][proc[p].client]]_vars

\* a batch is between its statement and its COMMIT, its row pending on its
\* client, while another request's execute_mutation has run on a second
\* client and committed
C28_Witness ==
  \E p, q \in Procs :
    /\ proc[p].reg = proc[q].reg
    /\ proc[p].tool = "execute_transaction"
    /\ proc[p].pc = "query" /\ proc[p].idx = 3
    /\ clients[proc[p].reg][proc[p].client].pending = {"r2"}
    /\ proc[q].tool = "execute_mutation"
    /\ Finished(q) /\ proc[q].out.kind = "return"
    /\ proc[q].db0 = {}
    /\ proc[q].client # proc[p].client
    /\ Len(proc[p].sent) = 2
    /\ committed = {"r1"}

\* C29: an execution that holds a client releases it and ends (returns or
\* throws), given that every driver call it awaits is answered; and nothing
\* but such an answer ends the wait: while no answer comes the execution
\* stays where it is and its client stays checked out, no timeout of the
\* tool's steps in.
C29_EventuallyReleased ==
  /\ (HeldBy(1) = 1) ~> (Finished(1) /\ HeldBy(1) = 0)
  /\ [][\A p \in Procs :
          (HeldBy(p) = 1 /\ Len(proc'[p].answers) = Len(proc[p].answers)) =>
            /\ proc'[p] = proc[p]
            /\ proc[p].client \in BusyClients(proc[p].reg)']_vars

\* get_database_info has had its four statements answered and has released
\* its client
C29_Witness ==
  /\ Finished(1)
  /\ proc[1].tool = "get_database_info"
  /\ Len(proc[1].answers) = 4
  /\ proc[1].acquired = 1 /\ HeldBy(1) = 0
  /\ BusyClients(proc[1].reg) = {}

\* the text is transaction control
TransactionControl(query) == Command(query) \in {"BEGIN", "COMMIT", "ROLLBACK"}

\* C30: execute_mutation and execute_transaction look at no statement text:
\* whatever the text, transaction control included, the statement is sent as
\* given, on the tool's client, at the place the caller gave it; no
\* statement is refused by the tool, a failure is always the driver's answer
\* to a call that was sent.
C30_NoClassification ==
  \A p \in Procs :
    LET pr == proc[p]
    IN (pr.tool \in {"execute_mutation", "execute_transaction"}
          /\ Finished(p) /\ pr.acquired = 1) =>
         /\ pr.sent # <<>>
         /\ Len(pr.answers) = Len(pr.sent)
         /\ pr.out.message.text # OnlySelectText
         /\ ~Failed(pr.out) => \A j \in 1..Len(pr.answers) : pr.answers[j] = "ok"
         /\ Failed(pr.out) =>
              \E j \in 1..Len(pr.answers) :
                pr.answers[j] # "ok" /\ pr.out.message.at \in {j, j + 1}
         /\ pr.tool = "execute_mutation" =>
              pr.sent = << [query |-> pr.args.query,
                            params |-> IF pr.args.params = Undefined THEN <<>>
                                       ELSE pr.args.params] >>
         /\ pr.tool = "execute_transaction" =>
              \A i \in 1..Len(pr.args.queries) :
                \* the statements before it were answered ok: it was sent
                (\A j \in 1..i : j <= Len(pr.answers) /\ pr.answers[j] = "ok") =>
                  /\ Len(pr.sent) >= i + 1
                  /\ pr.sent[i + 1].query = pr.args.queries[i].query

\* a batch with the caller's ROLLBACK in the middle has succeeded: the
\* ROLLBACK was sent third, the row before it is gone, the row after it is
\* committed
C30_Witness ==
  \E p \in Procs :
    /\ Finished(p)
    /\ proc[p].tool = "execute_transaction"
    /\ Len(proc[p].args.queries) = 3
    /\ proc[p].out.success = "true"
    /\ TransactionControl(proc[p].args.queries[2].query)
    /\ proc[p].sent[3] = [query |-> <<"ROLLBACK">>, params |-> <<>>]
    /\ proc[p].db0 = {} /\ committed = {"r2"}
    /\ proc[p].args.queries[1].params = <<"r1">>

=============================================================================
